---- MODULE Spec2Model ----
(***************************************************************************)
(* Contact-form submission handler of app/routes/app._index.jsx (`action`) *)
(* together with the ContactForm table of the Prisma migration.            *)
(*                                                                         *)
(* Strings are sequences of one-character strings so that trim(),          *)
(* toLowerCase(), length and the regular expressions are computed, not     *)
(* assumed.  A missing form field (formData.get returning null) is Null.   *)
(* Every await of the handler is one step; the synchronous code between    *)
(* two awaits belongs to the step that precedes it.                        *)
(***************************************************************************)
EXTENDS Integers, Sequences, FiniteSets, TLC

\* ------------------------------------------------------------------ bounds
MaxRequests == 2
MaxSeqRequests == 3

\* ------------------------------------------------------- program constants
MinNameLen == 2
MaxNameLen == 50
MaxEmailLen == 254
MinTldLen == 2
MinPhoneDigits == 7
MaxPhoneDigits == 12
MinQuestionsLen == 10
MaxQuestionsLen == 1000

\* ----------------------------------------------------------------- strings
Null == <<"(null)">>

Lower ==
  <<"a","b","c","d","e","f","g","h","i","j","k","l","m",
    "n","o","p","q","r","s","t","u","v","w","x","y","z">>
Upper ==
  <<"A","B","C","D","E","F","G","H","I","J","K","L","M",
    "N","O","P","Q","R","S","T","U","V","W","X","Y","Z">>
Letters == {Lower[i] : i \in 1..26} \cup {Upper[i] : i \in 1..26}
Digits == {"0","1","2","3","4","5","6","7","8","9"}
Whitespace == {" ", "\t", "\n"}

Rep(c, n) == SubSeq([i \in 1..n |-> c], 1, n)

AllIn(s, lo, hi, class) == \A i \in lo..hi : s[i] \in class

\* String.prototype.trim
Trim(s) ==
  IF AllIn(s, 1, Len(s), Whitespace) THEN <<>>
  ELSE LET first == CHOOSE i \in 1..Len(s) :
                      s[i] \notin Whitespace /\ AllIn(s, 1, i - 1, Whitespace)
           tail == CHOOSE k \in 0..(Len(s) - 1) :
                     /\ s[Len(s) - k] \notin Whitespace
                     /\ AllIn(s, Len(s) - k + 1, Len(s), Whitespace)
       IN SubSeq(s, first, Len(s) - tail)

ToLowerChar(c) ==
  IF \E i \in 1..26 : Upper[i] = c
  THEN Lower[CHOOSE i \in 1..26 : Upper[i] = c]
  ELSE c

\* String.prototype.toLowerCase
ToLower(s) == SubSeq([i \in 1..Len(s) |-> ToLowerChar(s[i])], 1, Len(s))

\* x?.trim(): undefined (falsy, here Null) on a missing field
OptTrim(s) == IF s = Null THEN Null ELSE Trim(s)

\* JavaScript truthiness of a string-or-null value
Truthy(s) == s # Null /\ s # <<>>

\* --------------------------------------------------------------- validators
EmailLocalChars == Letters \cup Digits \cup {".", "_", "%", "+", "-"}
EmailDomainChars == Letters \cup Digits \cup {".", "-"}
NameChars == Letters \cup Whitespace \cup {"'", "-"}

\* /^[a-zA-Z0-9._%+-]+@[a-zA-Z0-9.-]+\.[a-zA-Z]{2,}$/.test(email)
validateEmail(email) ==
  \E at \in 2..Len(email) :
    /\ email[at] = "@"
    /\ AllIn(email, 1, at - 1, EmailLocalChars)
    /\ \E dot \in (at + 2)..(Len(email) - MinTldLen) :
         /\ email[dot] = "."
         /\ AllIn(email, at + 1, dot - 1, EmailDomainChars)
         /\ AllIn(email, dot + 1, Len(email), Letters)

\* /^[a-zA-Z\s'-]+$/.test(name || "") && name.trim().length >= 2
validateName(name) ==
  /\ Truthy(name)
  /\ AllIn(name, 1, Len(name), NameChars)
  /\ Len(Trim(name)) >= MinNameLen

\* phoneNumber.replace(/[^\d]/g, "").length
DigitCount(s) == Cardinality({i \in 1..Len(s) : s[i] \in Digits})

validatePhone(phoneNumber, countryCode) ==
  IF ~Truthy(phoneNumber) \/ Trim(phoneNumber) = <<>>
  THEN TRUE
  ELSE /\ DigitCount(phoneNumber) >= MinPhoneDigits
       /\ DigitCount(phoneNumber) <= MaxPhoneDigits

NoError == ""

FirstNameError(v) ==
  IF ~Truthy(OptTrim(v)) THEN "First name is required"
  ELSE IF Len(Trim(v)) < MinNameLen THEN "At least 2 characters"
  ELSE IF Len(Trim(v)) > MaxNameLen THEN "Max 50 characters"
  ELSE IF ~validateName(Trim(v)) THEN "Only letters, spaces, - and '"
  ELSE NoError

LastNameError(v) ==
  IF ~Truthy(OptTrim(v)) THEN "Last name is required"
  ELSE IF Len(Trim(v)) < MinNameLen THEN "At least 2 characters"
  ELSE IF Len(Trim(v)) > MaxNameLen THEN "Max 50 characters"
  ELSE IF ~validateName(Trim(v)) THEN "Only letters, spaces, - and '"
  ELSE NoError

EmailError(v) ==
  IF ~Truthy(OptTrim(v)) THEN "Email is required"
  ELSE IF Len(Trim(v)) > MaxEmailLen THEN "Email too long"
  ELSE IF ~validateEmail(Trim(v)) THEN "Invalid email"
  ELSE NoError

PhoneError(v, countryCode) ==
  IF Truthy(OptTrim(v)) /\ ~validatePhone(Trim(v), countryCode)
  THEN "Invalid phone number format"
  ELSE NoError

\* a validator that forgets the minimum length
QuestionsErrorNoMinimum(v) ==
  IF ~Truthy(OptTrim(v)) THEN "Questions field is required"
  ELSE IF Len(Trim(v)) > MaxQuestionsLen THEN "Max 1000 characters"
  ELSE NoError

QuestionsError(v) ==
  IF ~Truthy(OptTrim(v)) THEN "Questions field is required"
  ELSE IF Len(Trim(v)) < MinQuestionsLen THEN "Minimum 10 characters"
  ELSE IF Len(Trim(v)) > MaxQuestionsLen THEN "Max 1000 characters"
  ELSE NoError

FieldNames == {"firstName", "lastName", "email", "phoneNumber", "questions"}

\* a validation that stops at the first failing field
ErrorsFromFirstOnly(all) ==
  LET order == <<"firstName", "lastName", "email", "phoneNumber", "questions">>
      bad == {i \in 1..5 : all[order[i]] # NoError}
  IN [k \in {order[i] : i \in {j \in bad : \A h \in bad : j <= h}} |-> all[k]]

\* the keys set on `errors`: those whose validation statement assigned a message
ErrorsFrom(all) ==
  [k \in {x \in FieldNames : all[x] # NoError} |-> all[k]]

\* the `errors` object after the five validation statements
ErrorsOf(f) ==
  ErrorsFrom([firstName |-> FirstNameError(f.firstName),
              lastName |-> LastNameError(f.lastName),
              email |-> EmailError(f.email),
              phoneNumber |-> PhoneError(f.phoneNumber, f.countryCode),
              questions |-> QuestionsError(f.questions)])

\* email.trim().toLowerCase()
Normalize(email) == ToLower(Trim(email))

\* countryCode && phoneNumber ? `${countryCode} ${phoneNumber.trim()}` : null
PhoneOf(f) ==
  IF Truthy(f.countryCode) /\ Truthy(f.phoneNumber)
  THEN f.countryCode \o <<" ">> \o Trim(f.phoneNumber)
  ELSE Null

\* phone?.trim() || null
StoredPhone(f) ==
  IF Truthy(OptTrim(PhoneOf(f))) THEN Trim(PhoneOf(f)) ELSE Null

\* ----------------------------------------------------------------- results
ValidationFailure(errs) ==
  [success |-> FALSE, errors |-> errs, message |-> "Please fix the validation errors"]
DuplicateResult ==
  [success |-> FALSE,
   message |-> "A submission with this email already exists. Please use a different email or contact support."]
SuccessResult ==
  [success |-> TRUE, message |-> "Form submitted successfully! Our team will contact you soon."]
GenericFailure ==
  [success |-> FALSE, message |-> "Failed to submit form. Please try again later."]
NoResult == [success |-> FALSE, message |-> "(no result yet)"]

\* ------------------------------------------------------------------- state
\* two handler executions may be in flight at once
Procs == {1, 2}

VARIABLES
  hubspotKey,  \* process.env.HUBSPOT_API_KEY is set
  store,       \* rows of "ContactForm", in insertion order
  sent,        \* notification emails accepted by Resend, in order
  contacts,    \* contacts created in HubSpot
  pc,          \* per handler execution: the await it is suspended at
  form,        \* per execution: the submitted form data
  result,      \* per execution: the value the handler returned
  reqId,       \* per execution: the request it serves (0: none)
  nextId,      \* number of the next request to arrive
  calls,       \* per execution: the external calls made, <<name, outcome>>
  dupAtStart,  \* per execution: a row with its email existed when it was read
  seenLen,     \* per execution: number of rows when findFirst answered
  checkedAt    \* per row: seenLen of the execution that inserted it

vars ==
  <<hubspotKey, store, sent, contacts, pc, form, result, reqId, nextId,
    calls, dupAtStart, seenLen, checkedAt>>

NoForm ==
  [firstName |-> Null, lastName |-> Null, email |-> Null,
   countryCode |-> Null, phoneNumber |-> Null, questions |-> Null]

Init ==
  /\ hubspotKey \in BOOLEAN
  /\ store = <<>>
  /\ sent = <<>>
  /\ contacts = {}
  /\ pc = [p \in Procs |-> "idle"]
  /\ form = [p \in Procs |-> NoForm]
  /\ result = [p \in Procs |-> NoResult]
  /\ reqId = [p \in Procs |-> 0]
  /\ nextId = 1
  /\ calls = [p \in Procs |-> <<>>]
  /\ dupAtStart = [p \in Procs |-> FALSE]
  /\ seenLen = [p \in Procs |-> 0]
  /\ checkedAt = <<>>

\* --------------------------------------------------------- store operations
\* a lookup that forgets toLowerCase()
ExistingNoLowerCase(email) ==
  {i \in 1..Len(store) : store[i].email = Trim(email)}

\* a lookup that forgets trim()
ExistingNoTrim(email) ==
  {i \in 1..Len(store) : store[i].email = ToLower(email)}

\* a handler without the duplicate check
ExistingNone(email) == {}

\* prisma.contactForm.findFirst({ where: { email: email.trim().toLowerCase() } })
Existing(email) ==
  {i \in 1..Len(store) : store[i].email = Normalize(email)}

\* the `data` of prisma.contactForm.create
NewRecord(p) ==
  [id |-> reqId[p],
   firstName |-> Trim(form[p].firstName),
   lastName |-> Trim(form[p].lastName),
   email |-> Normalize(form[p].email),
   phone |-> StoredPhone(form[p]),
   questions |-> Trim(form[p].questions)]

\* the fields interpolated into the notification email
NewEmail(p) ==
  [id |-> reqId[p],
   to |-> "abhinav.kavuluru@i95dev.com",
   firstName |-> form[p].firstName,
   lastName |-> form[p].lastName,
   email |-> form[p].email,
   phone |-> PhoneOf(form[p]),
   questions |-> form[p].questions]

\* the `properties` of hubspotClient.crm.contacts.basicApi.create
ContactProperties(p) ==
  [firstname |-> Trim(form[p].firstName),
   lastname |-> Trim(form[p].lastName),
   email |-> Normalize(form[p].email),
   phone |-> IF Truthy(PhoneOf(form[p])) THEN Trim(PhoneOf(form[p])) ELSE Null,
   hs_content_membership_notes |-> Trim(form[p].questions)]

Log(p, name, outcome) ==
  calls' = [calls EXCEPT ![p] = Append(@, <<name, outcome>>)]

Return(p, r) ==
  /\ pc' = [pc EXCEPT ![p] = "done"]
  /\ result' = [result EXCEPT ![p] = r]

\* a handler without the outer try/catch
CatchErrorRethrows(p) ==
  /\ pc' = [pc EXCEPT ![p] = "threw"]
  /\ UNCHANGED result

\* the outer catch block: catch (error) { ... return { success: false, ... } }
CatchError(p) == Return(p, GenericFailure)

\* ------------------------------------------------------------------ actions
\* await authenticate.admin(request): resolves, or throws out of the handler
Authenticate(p, ok) ==
  /\ pc[p] = "idle"
  /\ IF ok
     THEN /\ reqId' = [reqId EXCEPT ![p] = nextId]
          /\ nextId' = nextId + 1
          /\ pc' = [pc EXCEPT ![p] = "formData"]
     ELSE /\ pc' = [pc EXCEPT ![p] = "threw"]
          /\ UNCHANGED <<reqId, nextId>>
  /\ UNCHANGED <<hubspotKey, store, sent, contacts, form, result, calls,
                 dupAtStart, seenLen, checkedAt>>

\* a handler that tries HubSpot whether or not the key is set
FirstCallAlwaysHubspot == "hubspot"

\* the branch taken after validation: if (process.env.HUBSPOT_API_KEY)
FirstCall == IF hubspotKey THEN "hubspot" ELSE "findFirst"

\* await request.formData(), the validation, and the code up to the first call
Validate(p, f) ==
  /\ pc[p] = "formData"
  /\ form' = [form EXCEPT ![p] = f]
  /\ dupAtStart' = [dupAtStart EXCEPT ![p] =
                      \E i \in 1..Len(store) : store[i].email = Normalize(f.email)]
  /\ LET errors == ErrorsOf(f)
     IN IF DOMAIN errors # {}
        THEN Return(p, ValidationFailure(errors))
        ELSE /\ pc' = [pc EXCEPT ![p] = FirstCall]
             /\ UNCHANGED result
  /\ UNCHANGED <<hubspotKey, store, sent, contacts, reqId, nextId, calls,
                 seenLen, checkedAt>>

\* what follows a failed HubSpot call: return await fallbackToDatabase()
AfterHubspotFailure(p) ==
  /\ pc' = [pc EXCEPT ![p] = "findFirst"]
  /\ UNCHANGED result

\* a handler that persists locally after a successful HubSpot call too
AfterHubspotSuccessThenFallback(p) ==
  /\ pc' = [pc EXCEPT ![p] = "findFirst"]
  /\ UNCHANGED result

\* what follows a successful HubSpot call: return { success: true, ... }
AfterHubspotSuccess(p) == Return(p, SuccessResult)

\* await hubspotClient.crm.contacts.basicApi.create(...)
HubspotCreate(p, ok) ==
  /\ pc[p] = "hubspot"
  /\ IF ok
     THEN /\ contacts' = contacts \cup {ContactProperties(p)}
          /\ Log(p, "hubspot", "ok")
          /\ AfterHubspotSuccess(p)
     ELSE /\ Log(p, "hubspot", "threw")
          /\ AfterHubspotFailure(p)
          /\ UNCHANGED contacts
  /\ UNCHANGED <<hubspotKey, store, sent, form, reqId, nextId, dupAtStart,
                 seenLen, checkedAt>>

\* a duplicate check whose result is not acted on
FindFirstIgnoresExisting(p, ok) ==
  /\ pc[p] = "findFirst"
  /\ seenLen' = [seenLen EXCEPT ![p] = Len(store)]
  /\ IF ~ok
     THEN Log(p, "findFirst", "threw") /\ CatchError(p)
     ELSE /\ Log(p, "findFirst",
                 IF Existing(form[p].email) # {} THEN "found" ELSE "none")
          /\ pc' = [pc EXCEPT ![p] = "create"]
          /\ UNCHANGED result
  /\ UNCHANGED <<hubspotKey, store, sent, contacts, form, reqId, nextId,
                 dupAtStart, checkedAt>>

\* await prisma.contactForm.findFirst(...); if (existing) return {...}
FindFirst(p, ok) ==
  /\ pc[p] = "findFirst"
  /\ seenLen' = [seenLen EXCEPT ![p] = Len(store)]
  /\ IF ~ok
     THEN Log(p, "findFirst", "threw") /\ CatchError(p)
     ELSE IF Existing(form[p].email) # {}
     THEN Log(p, "findFirst", "found") /\ Return(p, DuplicateResult)
     ELSE /\ Log(p, "findFirst", "none")
          /\ pc' = [pc EXCEPT ![p] = "create"]
          /\ UNCHANGED result
  /\ UNCHANGED <<hubspotKey, store, sent, contacts, form, reqId, nextId,
                 dupAtStart, checkedAt>>

\* a fallback that forgets the notification email
CreateWithoutNotification(p, ok) ==
  /\ pc[p] = "create"
  /\ IF ok
     THEN /\ store' = Append(store, NewRecord(p))
          /\ checkedAt' = Append(checkedAt, seenLen[p])
          /\ Log(p, "create", "ok")
          /\ Return(p, SuccessResult)
     ELSE /\ Log(p, "create", "threw")
          /\ CatchError(p)
          /\ UNCHANGED <<store, checkedAt>>
  /\ UNCHANGED <<hubspotKey, sent, contacts, form, reqId, nextId, dupAtStart,
                 seenLen>>

\* await prisma.contactForm.create(...)
Create(p, ok) ==
  /\ pc[p] = "create"
  /\ IF ok
     THEN /\ store' = Append(store, NewRecord(p))
          /\ checkedAt' = Append(checkedAt, seenLen[p])
          /\ Log(p, "create", "ok")
          /\ pc' = [pc EXCEPT ![p] = "send"]
          /\ UNCHANGED result
     ELSE /\ Log(p, "create", "threw")
          /\ CatchError(p)
          /\ UNCHANGED <<store, checkedAt>>
  /\ UNCHANGED <<hubspotKey, sent, contacts, form, reqId, nextId, dupAtStart,
                 seenLen>>

\* a fallback that deletes the row it inserted when the email send throws
SendRollsBack(p, ok) ==
  /\ pc[p] = "send"
  /\ IF ok
     THEN /\ sent' = Append(sent, NewEmail(p))
          /\ Log(p, "send", "ok")
          /\ Return(p, SuccessResult)
          /\ UNCHANGED <<store, checkedAt>>
     ELSE /\ Log(p, "send", "threw")
          /\ CatchError(p)
          /\ store' = SelectSeq(store, LAMBDA r : r.id # reqId[p])
          /\ checkedAt' = SubSeq(checkedAt, 1,
                                 Len(SelectSeq(store, LAMBDA r : r.id # reqId[p])))
          /\ UNCHANGED sent
  /\ UNCHANGED <<hubspotKey, contacts, form, reqId, nextId, dupAtStart, seenLen>>

\* new Resend(...); await resend.emails.send(...); return { success: true, ... }
Send(p, ok) ==
  /\ pc[p] = "send"
  /\ IF ok
     THEN /\ sent' = Append(sent, NewEmail(p))
          /\ Log(p, "send", "ok")
          /\ Return(p, SuccessResult)
     ELSE /\ Log(p, "send", "threw")
          /\ CatchError(p)
          /\ UNCHANGED sent
  /\ UNCHANGED <<hubspotKey, store, contacts, form, reqId, nextId, dupAtStart,
                 seenLen, checkedAt>>

\* the response has gone out; the execution's locals are gone
Respond(p) ==
  /\ pc[p] \in {"done", "threw"}
  /\ pc' = [pc EXCEPT ![p] = "idle"]
  /\ form' = [form EXCEPT ![p] = NoForm]
  /\ result' = [result EXCEPT ![p] = NoResult]
  /\ reqId' = [reqId EXCEPT ![p] = 0]
  /\ calls' = [calls EXCEPT ![p] = <<>>]
  /\ dupAtStart' = [dupAtStart EXCEPT ![p] = FALSE]
  /\ seenLen' = [seenLen EXCEPT ![p] = 0]
  /\ UNCHANGED <<hubspotKey, store, sent, contacts, nextId, checkedAt>>

\* ------------------------------------------------------------------- inputs
GoodName == <<"J","o">>
GoodLast == <<"L","e","e">>
GoodQuestions == <<"W","e"," ","n","e","e","d"," ","h","e","l","p">>
EmailA == <<"j","o","@","a","c","m","e",".","c","o","m">>
EmailAVariant == <<" ","J","o","@","A","C","M","E",".","c","o","m"," ">>
EmailB == <<"a","l","@","b",".","i","o">>
EmailBad == <<"n","o","t","-","a","n","-","e","m","a","i","l">>

FormWith(e) ==
  [firstName |-> GoodName, lastName |-> GoodLast, email |-> e,
   countryCode |-> Null, phoneNumber |-> Null, questions |-> GoodQuestions]

\* requests of the concurrent and of the sequential specification
FlowForms == {FormWith(e) : e \in {EmailA, EmailAVariant, EmailB, EmailBad}}

\* field values of the validation specification
FirstNames ==
  {Null, <<>>, <<" "," ">>, <<"J">>, <<" ","J","o"," ">>, <<"J","0","e">>,
   <<"J","o","\t","L","-","O","'","N">>,
   Rep("a", MaxNameLen), Rep("a", MaxNameLen + 1)}
LastNames ==
  {Null, <<"L">>, GoodLast, <<"L","e","3">>, Rep("b", MaxNameLen + 1)}
Emails ==
  {Null, <<" ">>, EmailBad, EmailA, EmailAVariant,
   <<"j","o","@","a","c","m","e">>,
   <<"j","o","@","a","c","m","e",".","c">>,
   <<"j","o","@","a","c","m","e",".","c","0","m">>,
   <<"@","a","c","m","e",".","c","o","m">>,
   <<"j"," ","o","@","b",".","c","o","m">>,
   <<"j","+","o","@","a",".","b","-","c",".","c","o">>,
   Rep("a", MaxEmailLen - 5) \o <<"@","b",".","c","o">>,
   Rep("a", MaxEmailLen - 4) \o <<"@","b",".","c","o">>}
CountryCodes == {Null, <<"+","1">>}
PhoneNumbers ==
  {Null, <<" ">>, <<"a","b","c">>,
   <<"1","2","3","4","5","6">>,
   <<"(","5","5","5",")"," ","1","2","3","-","4","5","6","7">>,
   Rep("9", MaxPhoneDigits), Rep("9", MaxPhoneDigits + 1)}
QuestionTexts ==
  {Null, <<" "," ">>,
   <<" ">> \o Rep("q", MinQuestionsLen - 1) \o <<" ">>,
   Rep("q", MinQuestionsLen), GoodQuestions,
   Rep("q", MaxQuestionsLen), Rep("q", MaxQuestionsLen + 1)}

AllForms ==
  [firstName : FirstNames, lastName : LastNames, email : Emails,
   countryCode : CountryCodes, phoneNumber : PhoneNumbers,
   questions : QuestionTexts]

\* ----------------------------------------------------------- specifications
\* concurrent handler executions
Next ==
  \/ \E p \in Procs, ok \in BOOLEAN : nextId <= MaxRequests /\ Authenticate(p, ok)
  \/ \E p \in Procs, f \in FlowForms : Validate(p, f)
  \/ \E p \in Procs, ok \in BOOLEAN : HubspotCreate(p, ok)
  \/ \E p \in Procs, ok \in BOOLEAN : FindFirst(p, ok)
  \/ \E p \in Procs, ok \in BOOLEAN : Create(p, ok)
  \/ \E p \in Procs, ok \in BOOLEAN : Send(p, ok)
  \/ \E p \in Procs : Respond(p)

Spec == Init /\ [][Next]_vars

\* requests handled strictly one after another
NextSeq ==
  \/ \E p \in Procs, ok \in BOOLEAN :
       /\ nextId <= MaxSeqRequests
       /\ \A q \in Procs : pc[q] = "idle"
       /\ Authenticate(p, ok)
  \/ \E p \in Procs, f \in FlowForms : Validate(p, f)
  \/ \E p \in Procs, ok \in BOOLEAN : HubspotCreate(p, ok)
  \/ \E p \in Procs, ok \in BOOLEAN : FindFirst(p, ok)
  \/ \E p \in Procs, ok \in BOOLEAN : Create(p, ok)
  \/ \E p \in Procs, ok \in BOOLEAN : Send(p, ok)
  \/ \E p \in Procs : Respond(p)

SpecSeq == Init /\ [][NextSeq]_vars

\* one request, every combination of field values
NextVal ==
  \/ \E ok \in BOOLEAN : nextId = 1 /\ Authenticate(1, ok)
  \/ pc[1] = "formData" /\ \E f \in AllForms : Validate(1, f)
  \/ \E ok \in BOOLEAN : HubspotCreate(1, ok)
  \/ \E ok \in BOOLEAN : FindFirst(1, ok)
  \/ \E ok \in BOOLEAN : Create(1, ok)
  \/ \E ok \in BOOLEAN : Send(1, ok)
  \/ Respond(1)

SpecVal == Init /\ [][NextVal]_vars

\* ------------------------------------------------------- claim vocabulary
\* the execution has read its form data
Started(p) == pc[p] \in {"hubspot", "findFirst", "create", "send", "done"}

\* the field rules as the specification words them
NameOK(v) ==
  /\ v # Null
  /\ Len(Trim(v)) >= MinNameLen
  /\ Len(Trim(v)) <= MaxNameLen
  /\ \A i \in 1..Len(Trim(v)) : Trim(v)[i] \in NameChars
EmailOK(v) ==
  /\ v # Null
  /\ Len(Trim(v)) >= 1
  /\ Len(Trim(v)) <= MaxEmailLen
  /\ validateEmail(Trim(v))
PhoneOK(v) ==
  \/ v = Null
  \/ Trim(v) = <<>>
  \/ DigitCount(v) \in MinPhoneDigits..MaxPhoneDigits
QuestionsOK(v) ==
  /\ v # Null
  /\ Len(Trim(v)) >= MinQuestionsLen
  /\ Len(Trim(v)) <= MaxQuestionsLen

FailingFields(f) ==
  {k \in FieldNames :
     \/ k = "firstName" /\ ~NameOK(f.firstName)
     \/ k = "lastName" /\ ~NameOK(f.lastName)
     \/ k = "email" /\ ~EmailOK(f.email)
     \/ k = "phoneNumber" /\ ~PhoneOK(f.phoneNumber)
     \/ k = "questions" /\ ~QuestionsOK(f.questions)}

MessagesOf(k) ==
  CASE k = "firstName" ->
         {"First name is required", "At least 2 characters", "Max 50 characters",
          "Only letters, spaces, - and '"}
    [] k = "lastName" ->
         {"Last name is required", "At least 2 characters", "Max 50 characters",
          "Only letters, spaces, - and '"}
    [] k = "email" -> {"Email is required", "Email too long", "Invalid email"}
    [] k = "phoneNumber" -> {"Invalid phone number format"}
    [] k = "questions" ->
         {"Questions field is required", "Minimum 10 characters",
          "Max 1000 characters"}

CallsNamed(p, name) == {i \in 1..Len(calls[p]) : calls[p][i][1] = name}
Made(p, name, outcome) == \E i \in 1..Len(calls[p]) : calls[p][i] = <<name, outcome>>
RowsOf(p) == {i \in 1..Len(store) : store[i].id = reqId[p]}
EmailsOf(p) == {i \in 1..Len(sent) : sent[i].id = reqId[p]}
NoSideEffects(p) ==
  /\ calls[p] = <<>>
  /\ RowsOf(p) = {}
  /\ EmailsOf(p) = {}
  /\ \A c \in contacts : c.email # Normalize(form[p].email)

\* ------------------------------------------------------------------- claims
\* C1: a request with at least one field failing its validator is answered
\* success=false with an errors map holding a message of each failing field,
\* and makes no CRM call, no duplicate-check query, no insert and no email send.
C1_InvalidRejectedWithoutSideEffects ==
  \A p \in Procs :
    (Started(p) /\ FailingFields(form[p]) # {}) =>
      /\ pc[p] = "done"
      /\ result[p].success = FALSE
      /\ result[p].message = "Please fix the validation errors"
      /\ "errors" \in DOMAIN result[p]
      /\ \A k \in FailingFields(form[p]) :
           /\ k \in DOMAIN result[p].errors
           /\ result[p].errors[k] \in MessagesOf(k)
      /\ calls[p] = <<>>
      /\ store = <<>> /\ sent = <<>> /\ contacts = {}

C1_Witness ==
  /\ pc[1] = "done"
  /\ form[1].email = EmailBad
  /\ FailingFields(form[1]) = {"email"}
  /\ result[1] = ValidationFailure([email |-> "Invalid email"])
  /\ calls[1] = <<>>

\* C9: validation does not stop at the first failing field: the errors map has
\* an entry for exactly the fields whose value fails its validator.
C9_ErrorsExactlyFailingFields ==
  \A p \in Procs :
    Started(p) =>
      IF FailingFields(form[p]) = {}
      THEN "errors" \notin DOMAIN result[p]
      ELSE /\ pc[p] = "done"
           /\ "errors" \in DOMAIN result[p]
           /\ DOMAIN result[p].errors = FailingFields(form[p])
           /\ Cardinality(DOMAIN result[p].errors) = Cardinality(FailingFields(form[p]))

C9_Witness ==
  /\ pc[1] = "done"
  /\ "errors" \in DOMAIN result[1]
  /\ DOMAIN result[1].errors = FieldNames
  /\ FailingFields(form[1]) = FieldNames

\* C2: with the CRM credential configured and the CRM create call succeeding,
\* the handler returns success=true and, for that request, issues no
\* duplicate-check query, inserts no row and sends no email.
C2_CrmSuccessNoLocalPersistence ==
  \A p \in Procs :
    Made(p, "hubspot", "ok") =>
      /\ hubspotKey
      /\ pc[p] = "done"
      /\ result[p] = SuccessResult
      /\ calls[p] = << <<"hubspot", "ok">> >>
      /\ RowsOf(p) = {}
      /\ EmailsOf(p) = {}

C2_Witness ==
  /\ pc[1] = "done"
  /\ calls[1] = << <<"hubspot", "ok">> >>
  /\ result[1] = SuccessResult
  /\ Len(store) = 1
  /\ store[1].id # reqId[1]

\* rows with the execution's normalized email that were in the store when its
\* duplicate check answered (rows are only ever appended)
RowsSeenBy(p) ==
  {i \in 1..seenLen[p] : store[i].email = Normalize(form[p].email)}

\* C3 as stated: CRM configured, CRM call failed and no row with the request's
\* normalized email: exactly one row inserted, exactly one send, in that order.
C3_Original ==
  \A p \in Procs :
    ( /\ pc[p] = "done"
      /\ Made(p, "hubspot", "threw")
      /\ \A i \in 1..Len(store) :
           store[i].email = Normalize(form[p].email) => store[i].id = reqId[p] ) =>
      /\ Cardinality(RowsOf(p)) = 1
      /\ Cardinality(CallsNamed(p, "send")) = 1
      /\ \A i \in CallsNamed(p, "create"), j \in CallsNamed(p, "send") : i < j

\* C3 amended: CRM call failed, the duplicate check did not throw and saw no
\* row with the normalized email: exactly one insert is attempted; if it does
\* not throw, exactly one row is inserted and exactly one send is attempted,
\* after the insert; if it throws, no row is inserted and nothing is sent.
C3_Amended ==
  \A p \in Procs :
    ( /\ pc[p] = "done"
      /\ Made(p, "hubspot", "threw")
      /\ ~Made(p, "findFirst", "threw")
      /\ RowsSeenBy(p) = {} ) =>
      /\ Made(p, "findFirst", "none")
      /\ Cardinality(CallsNamed(p, "create")) = 1
      /\ IF Made(p, "create", "ok")
         THEN /\ Cardinality(RowsOf(p)) = 1
              /\ \A i \in RowsOf(p) : store[i] = NewRecord(p)
              /\ Cardinality(CallsNamed(p, "send")) = 1
              /\ \A i \in CallsNamed(p, "create"), j \in CallsNamed(p, "send") : i < j
         ELSE /\ RowsOf(p) = {}
              /\ CallsNamed(p, "send") = {}

C3_Witness ==
  /\ pc[1] = "done"
  /\ calls[1] = << <<"hubspot", "threw">>, <<"findFirst", "none">>,
                   <<"create", "ok">>, <<"send", "ok">> >>
  /\ Cardinality(RowsOf(1)) = 1
  /\ Cardinality(EmailsOf(1)) = 1
  /\ result[1] = SuccessResult

\* C4: a request that passes validation while no CRM credential is configured
\* never calls the CRM and always runs the fallback path: the duplicate check
\* first, then the insert if no duplicate exists, then the email.
C4_NoKeyAlwaysFallback ==
  \A p \in Procs :
    (Started(p) /\ FailingFields(form[p]) = {} /\ ~hubspotKey) =>
      /\ CallsNamed(p, "hubspot") = {}
      /\ contacts = {}
      /\ pc[p] \in {"findFirst", "create", "send", "done"}
      /\ pc[p] # "findFirst" =>
           /\ calls[p][1][1] = "findFirst"
           /\ calls[p][1][2] = "found" <=> (RowsSeenBy(p) # {} /\ calls[p][1][2] # "threw")
      /\ (pc[p] = "done" /\ calls[p][1][2] = "none") =>
           /\ calls[p][2][1] = "create"
           /\ calls[p][2][2] = "ok" => (Len(calls[p]) = 3 /\ calls[p][3][1] = "send")

C4_Witness ==
  /\ ~hubspotKey
  /\ pc[1] = "done"
  /\ calls[1] = << <<"findFirst", "none">>, <<"create", "ok">>, <<"send", "ok">> >>
  /\ result[1] = SuccessResult

\* C5 as stated: once a row for an email is persisted, every later valid
\* request with the same email up to case and surrounding whitespace is
\* rejected with the 'already exists' message.
C5_Original ==
  \A p \in Procs :
    (pc[p] = "done" /\ FailingFields(form[p]) = {} /\ dupAtStart[p]) =>
      result[p] = DuplicateResult

\* C5 amended: such a later request is rejected as a duplicate whenever it
\* reaches the duplicate check (no CRM credential, or the CRM call failed) and
\* the check does not throw; it then makes no further call.
C5_Amended ==
  \A p \in Procs :
    ( /\ pc[p] \in {"create", "send", "done"}
      /\ FailingFields(form[p]) = {}
      /\ dupAtStart[p]
      /\ ~Made(p, "hubspot", "ok")
      /\ ~Made(p, "findFirst", "threw") ) =>
      /\ pc[p] = "done"
      /\ result[p] = DuplicateResult
      /\ calls[p][Len(calls[p])] = <<"findFirst", "found">>

C5_Witness ==
  /\ pc[1] = "done"
  /\ form[1].email = EmailAVariant
  /\ dupAtStart[1]
  /\ store[1].email = EmailA
  /\ result[1] = DuplicateResult

\* C6: with requests handled strictly one after another, the store never holds
\* two rows with the same normalized email.
C6_SequentialUniqueEmail ==
  \A i, j \in 1..Len(store) :
    i < j => Normalize(store[i].email) # Normalize(store[j].email)

C6_Witness ==
  /\ Len(store) = 2
  /\ \E p \in Procs :
       /\ pc[p] = "done"
       /\ dupAtStart[p]
       /\ result[p] = DuplicateResult

\* C7: the step in which the duplicate check finds an existing row ends the
\* request with the duplicate-rejection result, leaves every row and the sent
\* emails as they were, and nothing follows it.
C7_DuplicateLeavesStoreUntouched ==
  [][\A p \in Procs :
       ( /\ calls'[p] # calls[p]
         /\ Len(calls'[p]) > 0
         /\ calls'[p][Len(calls'[p])] = <<"findFirst", "found">> ) =>
         /\ pc'[p] = "done"
         /\ result'[p] = DuplicateResult
         /\ store' = store
         /\ sent' = sent
         /\ contacts' = contacts]_vars

C7_Witness ==
  /\ pc[2] = "done"
  /\ Made(2, "findFirst", "found")
  /\ result[2] = DuplicateResult
  /\ RowsOf(2) = {}
  /\ EmailsOf(2) = {}
  /\ Len(store) = 1

\* C8: a thrown duplicate check, insert or email send on the fallback path,
\* however the fallback was entered, ends the request with the generic failure
\* result: nothing propagates, nothing is retried, success is never reported.
C8_FallbackFailureIsGeneric ==
  \A p \in Procs : \A i \in 1..Len(calls[p]) :
    (calls[p][i][1] \in {"findFirst", "create", "send"} /\ calls[p][i][2] = "threw") =>
      /\ pc[p] = "done"
      /\ result[p] = GenericFailure
      /\ i = Len(calls[p])
      /\ Cardinality(CallsNamed(p, "hubspot")) = (IF hubspotKey THEN 1 ELSE 0)
      /\ Cardinality(CallsNamed(p, "findFirst")) = 1
      /\ Cardinality(CallsNamed(p, "create")) <= 1
      /\ Cardinality(CallsNamed(p, "send")) <= 1

C8_Witness ==
  /\ hubspotKey
  /\ pc[1] = "done"
  /\ calls[1] = << <<"hubspot", "threw">>, <<"findFirst", "none">>,
                   <<"create", "ok">>, <<"send", "threw">> >>
  /\ result[1] = GenericFailure

\* C10: two rows with the same email exist only when the later one was
\* inserted by an execution whose duplicate check answered before the earlier
\* one was inserted; the witness is the interleaving in which both executions
\* check, both insert and both report success.
C10_DuplicateRowsOnlyFromRace ==
  \A i, j \in 1..Len(store) :
    (i < j /\ Normalize(store[i].email) = Normalize(store[j].email)) =>
      checkedAt[j] < i

C10_Witness ==
  /\ pc[1] = "done" /\ pc[2] = "done"
  /\ result[1] = SuccessResult /\ result[2] = SuccessResult
  /\ Made(1, "findFirst", "none") /\ Made(2, "findFirst", "none")
  /\ Normalize(form[1].email) = Normalize(form[2].email)
  /\ Len(store) = 2
  /\ store[1].email = store[2].email
  /\ checkedAt = <<0, 0>>
  /\ RowsOf(1) # {} /\ RowsOf(2) # {}

\* a row whose notification was attempted and threw: no email of its request
\* was accepted and its inserter is no longer waiting on the send
FailedNotify(i) ==
  /\ \A k \in 1..Len(sent) : sent[k].id # store[i].id
  /\ \A q \in Procs : ~(reqId[q] = store[i].id /\ pc[q] = "send")

\* a row of another request, with the execution's normalized email, whose
\* notification threw
UnnotifiedRowsFor(p) ==
  {i \in 1..Len(store) :
     /\ store[i].email = Normalize(form[p].email)
     /\ store[i].id # reqId[p]
     /\ FailedNotify(i)}

\* C11 as stated: after an insert whose email send threw, the row stays and
\* the caller gets the generic failure; every later resubmission of that email
\* that reaches the fallback path is rejected as a duplicate with no new row
\* and no send, and no notification for that address is ever sent.
C11_Original ==
  /\ \A p \in Procs :
       (pc[p] = "done" /\ Made(p, "create", "ok") /\ Made(p, "send", "threw")) =>
         (result[p] = GenericFailure /\ Cardinality(RowsOf(p)) = 1)
  /\ \A p \in Procs :
       ( /\ pc[p] = "done"
         /\ dupAtStart[p]
         /\ UnnotifiedRowsFor(p) # {}
         /\ CallsNamed(p, "findFirst") # {} ) =>
         /\ result[p] = DuplicateResult
         /\ RowsOf(p) = {}
         /\ CallsNamed(p, "send") = {}
  /\ \A i \in 1..Len(store) :
       FailedNotify(i) =>
         \A k \in 1..Len(sent) : Normalize(sent[k].email) # store[i].email

C11_AfterFailedSend ==
  /\ \A p \in Procs :
       (pc[p] = "done" /\ Made(p, "create", "ok") /\ Made(p, "send", "threw")) =>
         /\ result[p] = GenericFailure
         /\ Cardinality(RowsOf(p)) = 1
         /\ \A i \in RowsOf(p) : store[i] = NewRecord(p) /\ FailedNotify(i)
         /\ EmailsOf(p) = {}
  /\ \A p \in Procs :
       (Started(p) /\ dupAtStart[p] /\ UnnotifiedRowsFor(p) # {}) =>
         /\ RowsOf(p) = {}
         /\ CallsNamed(p, "create") = {}
         /\ CallsNamed(p, "send") = {}
         /\ EmailsOf(p) = {}
         /\ (CallsNamed(p, "findFirst") # {} /\ ~Made(p, "findFirst", "threw")) =>
              /\ pc[p] = "done"
              /\ result[p] = DuplicateResult
              /\ calls[p][Len(calls[p])] = <<"findFirst", "found">>

\* C11 amended: after an insert whose email send threw, the row stays as
\* inserted (no step removes or changes a row) and the caller gets the generic
\* failure; a resubmission of that email that begins after the insert makes no
\* insert and no send, and is rejected as a duplicate whenever its duplicate
\* check is reached and does not throw.
C11_Amended ==
  /\ []C11_AfterFailedSend
  /\ [][\A i \in 1..Len(store) : Len(store') >= i /\ store'[i] = store[i]]_vars

C11_Witness ==
  /\ pc[2] = "done"
  /\ dupAtStart[2]
  /\ form[2].email = EmailAVariant
  /\ Len(store) = 1
  /\ store[1].email = EmailA
  /\ FailedNotify(1)
  /\ sent = <<>>
  /\ result[2] = DuplicateResult
  /\ calls[2][Len(calls[2])] = <<"findFirst", "found">>

TypeOK ==
  /\ hubspotKey \in BOOLEAN
  /\ pc \in [Procs -> {"idle", "formData", "hubspot", "findFirst", "create",
                       "send", "done", "threw"}]
  /\ Len(checkedAt) = Len(store)
  /\ nextId \in 1..(MaxSeqRequests + MaxRequests + 1)
  /\ \A p \in Procs : reqId[p] \in 0..(nextId - 1)

====
